---- MODULE Spec2Model ----
(***************************************************************************)
(* General Knowledge Trainer (src/app.py): the per-topic performance       *)
(* counters, weak-topic detection, the diagnostic-exam builder, the        *)
(* personalized practice sampler and the two-step quiz session flow        *)
(* (Submit -> feedback, Next -> advance) over the two session slots        *)
(* "diagnostic" and "practice".                                            *)
(*                                                                         *)
(* A question is the record the loader accepts.  A session keeps, for each *)
(* question of its list, the fields the flow reads when it changes state   *)
(* (topic, options, answer); id, difficulty and the texts are only         *)
(* displayed.  Random draws are nondeterministic choices over every        *)
(* outcome of random.choice / random.sample / random.shuffle.              *)
(***************************************************************************)
EXTENDS Integers, Sequences, FiniteSets, TLC

VARIABLES ALL_QUESTIONS, global_stats, session_state, call

\* call: a direct call of weakest_topics, build_diagnostic_exam or
\* personalized_questions, with its arguments, its progress and what it
\* returned; the page script makes none (its calls are part of the handlers).
vars == <<ALL_QUESTIONS, global_stats, session_state, call>>

(* ----------------------------- bounds --------------------------------- *)

\* Answers recorded since the last reset are capped (the counters are unbounded).
MaxAnswers == 5

(* ----------------------------- config --------------------------------- *)

\* WEAK_THRESHOLD = 0.7, kept as the exact ratio 7/10.
WEAK_THRESHOLD == <<7, 10>>

WEAK_MAX_TOPICS == 3

DIFFICULTIES == <<"easy", "medium", "hard">>

\* st.slider("Number of practice questions:", 3, 15, ...): the lower end.
SLIDER_MIN == 3

\* st.slider("Number of practice questions:", 3, 15, ...): the upper end.
SLIDER_MAX == 15

\* The session slots.
Kinds == {"diagnostic", "practice"}

(* --------------------------- question banks --------------------------- *)

\* A record accepted by load_banks_from_jsonl: a known difficulty, at least
\* two options, the answer among the options, a unique id.
Question(id, topic, difficulty) ==
    [id |-> id, topic |-> topic, difficulty |-> difficulty,
     options |-> <<"x", "y">>, answer |-> "x"]

\* Topic names in alphabetical order (the order sorted() gives TOPICS).
TopicUniverse == <<"Art", "History", "Science">>

\* Bank files holding only blank lines: the loader returns no question.
BankEmpty == <<>>

\* One topic, no hard question: the exam builder has to top up.
BankOneTopic ==
    << Question(1, "Art", "easy"), Question(2, "Art", "easy"),
       Question(3, "Art", "medium") >>

\* Two topics, one question per difficulty each.
BankTwoTopics ==
    << Question(1, "Art", "easy"), Question(2, "Art", "medium"),
       Question(3, "Art", "hard"), Question(4, "History", "easy"),
       Question(5, "History", "medium"), Question(6, "History", "hard") >>

\* One topic with five questions, every difficulty present: a practice set
\* has 3, 4 or 5 questions depending on the slider.
BankManyArt ==
    << Question(1, "Art", "easy"), Question(2, "Art", "easy"),
       Question(3, "Art", "medium"), Question(4, "Art", "hard"),
       Question(5, "Art", "hard") >>

\* The banks the app is run on.
Banks == {BankEmpty, BankOneTopic, BankManyArt}

(* ------------------------------ helpers ------------------------------- *)

Min(a, b) == IF a <= b THEN a ELSE b

Max(a, b) == IF a >= b THEN a ELSE b

Range(s) == {s[j] : j \in 1..Len(s)}

RECURSIVE SumOver(_, _)
\* sum(d.values()) for a dict d restricted to the keys in S.
SumOver(d, S) ==
    IF S = {} THEN 0
    ELSE LET t == CHOOSE x \in S : TRUE IN d[t] + SumOver(d, S \ {t})

\* TOPICS = sorted({q["topic"] for q in ALL_QUESTIONS})
TOPICS(bank) ==
    SelectSeq(TopicUniverse, LAMBDA t : \E j \in 1..Len(bank) : bank[j].topic = t)

\* BY_TOPIC_DIFFICULTY[topic][difficulty], in bank order.
BY_TOPIC_DIFFICULTY(bank, topic, d) ==
    SelectSeq(bank, LAMBDA q : q.topic = topic /\ q.difficulty = d)

(* --------------------------- random source ---------------------------- *)

\* s without its j-th element.
RemoveAt(s, j) == SubSeq(s, 1, j - 1) \o SubSeq(s, j + 1, Len(s))

RECURSIVE Sample(_, _)
\* random.sample(population, k): every sequence of k elements taken at
\* distinct positions of the population (k <= len(population)).
Sample(population, k) ==
    IF k = 0 THEN {<<>>}
    ELSE UNION { { <<population[j]>> \o r : r \in Sample(RemoveAt(population, j), k - 1) }
                 : j \in 1..Len(population) }

\* random.shuffle(x): every permutation of x.
Shuffle(x) == Sample(x, Len(x))

RECURSIVE InsertById(_, _)
InsertById(q, s) ==
    IF s = <<>> THEN <<q>>
    ELSE IF q.id <= Head(s).id THEN <<q>> \o s
    ELSE <<Head(s)>> \o InsertById(q, Tail(s))

RECURSIVE SortById(_)
\* The questions of s in the order of their ids.
SortById(s) == IF s = <<>> THEN <<>> ELSE InsertById(Head(s), SortById(Tail(s)))

\* random.shuffle applied to any list of S. The permutations of a list are
\* those of the same questions in id order, so they are generated once per
\* collection of questions rather than once per list.
ShuffleEach(S) == UNION { Shuffle(c) : c \in { SortById(s) : s \in S } }

\* The pool left as it is: already selected questions stay in.
NotIn_Nothing(pool, selected) == pool

\* [q for q in pool if q not in selected]
NotIn(pool, selected) == SelectSeq(pool, LAMBDA q : q \notin Range(selected))

(* --------------------------- personalization -------------------------- *)

init_global_stats(bank) ==
    [topic_correct |-> [t \in Range(TOPICS(bank)) |-> 0],
     topic_total   |-> [t \in Range(TOPICS(bank)) |-> 0]]

\* record_answer counting the answer twice in topic_total.
record_answer_Twice(stats, topic, is_correct) ==
    [topic_total   |-> [stats.topic_total EXCEPT ![topic] = @ + 2],
     topic_correct |-> IF is_correct
                       THEN [stats.topic_correct EXCEPT ![topic] = @ + 1]
                       ELSE stats.topic_correct]

\* record_answer counting in topic_total only the answers that are wrong.
record_answer_TotalOfWrong(stats, topic, is_correct) ==
    [topic_total   |-> IF is_correct
                       THEN stats.topic_total
                       ELSE [stats.topic_total EXCEPT ![topic] = @ + 1],
     topic_correct |-> IF is_correct
                       THEN [stats.topic_correct EXCEPT ![topic] = @ + 1]
                       ELSE stats.topic_correct]

\* record_answer taking a point back for a wrong answer.
record_answer_Penalty(stats, topic, is_correct) ==
    [topic_total   |-> [stats.topic_total EXCEPT ![topic] = @ + 1],
     topic_correct |-> IF is_correct
                       THEN [stats.topic_correct EXCEPT ![topic] = @ + 1]
                       ELSE [stats.topic_correct EXCEPT
                                ![topic] = IF @ > 0 THEN @ - 1 ELSE @]]

\* record_answer counting the answer in topic_total of every topic.
record_answer_EveryTopic(stats, topic, is_correct) ==
    [topic_total   |-> [t \in DOMAIN stats.topic_total |-> stats.topic_total[t] + 1],
     topic_correct |-> IF is_correct
                       THEN [stats.topic_correct EXCEPT ![topic] = @ + 1]
                       ELSE stats.topic_correct]

record_answer(stats, topic, is_correct) ==
    [topic_total   |-> [stats.topic_total EXCEPT ![topic] = @ + 1],
     topic_correct |-> IF is_correct
                       THEN [stats.topic_correct EXCEPT ![topic] = @ + 1]
                       ELSE stats.topic_correct]

\* sum(stats["topic_total"].values())
TotalAnswers(stats) == SumOver(stats.topic_total, DOMAIN stats.topic_total)

\* compute_accuracies: correct/total, or 0.5 when total = 0, as a ratio <<num, den>>.
compute_accuracies(bank, stats) ==
    [t \in Range(TOPICS(bank)) |->
        IF stats.topic_total[t] > 0
        THEN <<stats.topic_correct[t], stats.topic_total[t]>>
        ELSE <<1, 2>>]

\* a < b for ratios with positive denominators.
RatioLess(a, b) == a[1] * b[2] < b[1] * a[2]

RECURSIVE InsertByAcc_Unstable(_, _, _)
\* A sort that is not stable: t goes in front of the elements of equal accuracy.
InsertByAcc_Unstable(sorted, t, acc) ==
    IF sorted = <<>> THEN <<t>>
    ELSE IF ~RatioLess(acc[Head(sorted)], acc[t]) THEN <<t>> \o sorted
    ELSE <<Head(sorted)>> \o InsertByAcc_Unstable(Tail(sorted), t, acc)

RECURSIVE InsertByAcc(_, _, _)
\* Insert t behind every element whose accuracy is not larger (stable).
InsertByAcc(sorted, t, acc) ==
    IF sorted = <<>> THEN <<t>>
    ELSE IF RatioLess(acc[t], acc[Head(sorted)]) THEN <<t>> \o sorted
    ELSE <<Head(sorted)>> \o InsertByAcc(Tail(sorted), t, acc)

RECURSIVE SortByAcc(_, _)
\* list.sort(key=accuracy): ascending and stable.
SortByAcc(s, acc) ==
    IF s = <<>> THEN <<>>
    ELSE InsertByAcc(SortByAcc(SubSeq(s, 1, Len(s) - 1), acc), s[Len(s)], acc)

weakest_topics(bank, stats, threshold, k) ==
    LET acc    == compute_accuracies(bank, stats)
        weak   == SelectSeq(TOPICS(bank), LAMBDA t : RatioLess(acc[t], threshold))
        sorted == SortByAcc(weak, acc)
    IN  SubSeq(sorted, 1, Min(k, Len(sorted)))

\* int(round(0.7 * n)) as Python computes it for n in 1..15 (ties go to the
\* even neighbour: round(3.5) = 4, round(10.5) = 10).
Round07(n) ==
    LET q == (7 * n) \div 10
        r == (7 * n) % 10
    IN  IF r < 5 THEN q
        ELSE IF r > 5 THEN q + 1
        ELSE IF q % 2 = 0 THEN q ELSE q + 1

\* personalized_questions past the two early returns: the weak draw, the fill
\* from the other pool (or the whole bank), the top-up, the shuffle.
PersonalizedMix(bank, weak, n0) ==
    LET weak_q  == SelectSeq(bank, LAMBDA q : q.topic \in Range(weak))
        other_q == SelectSeq(bank, LAMBDA q : q.topic \notin Range(weak))
        n       == Min(n0, Len(bank))
        n_weak_target == Max(1, Round07(n))
        Fill(selected) ==
            LET remaining == n - Len(selected)
                pool == NotIn(IF other_q # <<>> THEN other_q ELSE bank, selected)
            IN  IF remaining > 0 /\ pool # <<>>
                THEN { selected \o s : s \in Sample(pool, Min(remaining, Len(pool))) }
                ELSE { selected }
        TopUp(selected) ==
            LET pool == NotIn(bank, selected)
            IN  IF Len(selected) < n /\ pool # <<>>
                THEN { selected \o s : s \in Sample(pool, Min(n - Len(selected), Len(pool))) }
                ELSE { selected }
    IN  ShuffleEach(UNION { UNION { TopUp(s2) : s2 \in Fill(s1) }
                            : s1 \in Sample(weak_q, Min(n_weak_target, Len(weak_q))) })

\* The weak topics personalized_questions goes by: none while no answer is
\* recorded (the first early return), else weakest_topics at the defaults.
PracticeWeak(bank, stats) ==
    IF TotalAnswers(stats) = 0 THEN <<>>
    ELSE weakest_topics(bank, stats, WEAK_THRESHOLD, WEAK_MAX_TOPICS)

\* personalized_questions without the mix: a plain sample whatever is weak.
PracticeDraw_NoBias(bank, weak, n) == Sample(bank, Min(n, Len(bank)))

\* What personalized_questions returns given the weak topics: a plain sample
\* of the bank when there are none (both early returns), else the mix.
PracticeDraw(bank, weak, n) ==
    IF weak = <<>>
    THEN Sample(bank, Min(n, Len(bank)))
    ELSE PersonalizedMix(bank, weak, n)

\* personalized_questions(n): the set of lists it can return.
personalized_questions(bank, stats, n) ==
    PracticeDraw(bank, PracticeWeak(bank, stats), n)

(* ----------------------- diagnostic exam builder ---------------------- *)

RECURSIVE PickPerDifficulty(_, _, _)
\* The first loop over DIFFICULTIES (from the j-th on): one random.choice from
\* every bucket that is not empty, in difficulty order.
PickPerDifficulty(bank, topic, j) ==
    IF j > Len(DIFFICULTIES) THEN {<<>>}
    ELSE LET candidates == BY_TOPIC_DIFFICULTY(bank, topic, DIFFICULTIES[j])
             rest       == PickPerDifficulty(bank, topic, j + 1)
         IN  IF candidates # <<>>
             THEN { <<c>> \o r : c \in Range(candidates), r \in rest }
             ELSE rest

RECURSIVE TopUpPicked(_, _)
\* while len(picked) < 3 and topic_all: a random candidate is appended when it
\* is not picked yet.  The lists the loop can end with; none when every
\* question of the topic is picked and fewer than 3 are (the loop never ends).
TopUpPicked(picked, topic_all) ==
    IF ~(Len(picked) < 3 /\ topic_all # <<>>) THEN {picked}
    ELSE UNION { TopUpPicked(Append(picked, c), topic_all)
                 : c \in Range(NotIn(topic_all, picked)) }

\* The questions one topic contributes: picked[:3].
TopicPicks(bank, topic) ==
    LET topic_all == BY_TOPIC_DIFFICULTY(bank, topic, DIFFICULTIES[1])
                     \o BY_TOPIC_DIFFICULTY(bank, topic, DIFFICULTIES[2])
                     \o BY_TOPIC_DIFFICULTY(bank, topic, DIFFICULTIES[3])
    IN  { SubSeq(picked, 1, Min(3, Len(picked)))
          : picked \in UNION { TopUpPicked(p, topic_all)
                               : p \in PickPerDifficulty(bank, topic, 1) } }

RECURSIVE ExamBeforeShuffle(_, _)
\* exam after the loop over the topics from the j-th on.
ExamBeforeShuffle(bank, j) ==
    IF j > Len(TOPICS(bank)) THEN {<<>>}
    ELSE { p \o r : p \in TopicPicks(bank, TOPICS(bank)[j]),
                    r \in ExamBeforeShuffle(bank, j + 1) }

\* build_diagnostic_exam(): the set of exams it can return.
build_diagnostic_exam(bank) ==
    UNION { Shuffle(exam) : exam \in ExamBeforeShuffle(bank, 1) }

(* ------------------------------ sessions ------------------------------ *)

\* What show_question_flow reads of a question when it changes state.
Shown(q) == [topic |-> q.topic, options |-> q.options, answer |-> q.answer]

\* A question list as a session holds it.
ShownList(questions) == [j \in 1..Len(questions) |-> Shown(questions[j])]

\* The lists the two builders can hand to a session, per bank (and, for the
\* practice sampler, per the weak topics it computed).
DiagnosticLists == [b \in Banks |-> { ShownList(e) : e \in build_diagnostic_exam(b) }]

\* The session start_exam_session stores under st.session_state[kind].
NewSession(questions) ==
    [questions |-> questions, i |-> 0, score |-> 0, done |-> FALSE,
     answered |-> FALSE, last_feedback |-> "None"]

\* The new session written over the whole session state: the other slot goes.
start_exam_session_Alone(state, kind, questions) ==
    [k \in {kind} |-> NewSession(questions)]

start_exam_session(state, kind, questions) ==
    [k \in (DOMAIN state) \cup {kind} |->
        IF k = kind THEN NewSession(questions) ELSE state[k]]

\* A pop that removes nothing.
Pop_Nothing(state, kind) == state

\* st.session_state.pop(kind, None)
Pop(state, kind) == [k \in (DOMAIN state) \ {kind} |-> state[k]]

\* What the practice slider can be set to: every integer from its lower to
\* its upper end.
PracticeNs == SLIDER_MIN..SLIDER_MAX

\* Every value weakest_topics can take on a bank: up to WEAK_MAX_TOPICS
\* distinct topics in some order.
WeakLists(bank) ==
    UNION { Sample(TOPICS(bank), k) : k \in 0..Min(WEAK_MAX_TOPICS, Len(TOPICS(bank))) }

\* The lists personalized_questions(n) can hand to a session, per bank, weak
\* topics and n.
PracticeListsTable ==
    [b \in Banks |-> [weak \in WeakLists(b) |-> [n \in PracticeNs |->
        { ShownList(l) : l \in PracticeDraw(b, weak, n) }]]]

PracticeLists(bank, stats, n) ==
    PracticeListsTable[bank][PracticeWeak(bank, stats)][n]

(* -------------------------- show_question_flow ------------------------ *)

\* The flow gets past "if sess['done']: return" and q = questions[i] (which
\* raises IndexError, ending the run, when i is past the end of the list).
ShowsQuestion(sess) == ~sess.done /\ sess.i < Len(sess.questions)

\* "Submit Answer" rendered also after the question is answered.
SubmitOffered_NoAnsweredGuard(sess) == ShowsQuestion(sess)

\* The "Submit Answer" button is rendered.
SubmitOffered(sess) == ShowsQuestion(sess) /\ ~sess.answered

\* "Next Question" rendered also before the question is answered.
NextOffered_Unanswered(sess) == ShowsQuestion(sess)

\* "Next Question" rendered also on the completion screen.
NextOffered_AfterDone(sess) == sess.answered \/ sess.done

\* The "Next Question" button is rendered.
NextOffered(sess) == ShowsQuestion(sess) /\ sess.answered

\* The question on display.
CurrentQuestion(sess) == sess.questions[sess.i + 1]

\* The Submit handler leaving the answered flag as it is.
Submitted_NoFlag(sess, correct) ==
    [sess EXCEPT !.score = IF correct THEN @ + 1 ELSE @,
                 !.last_feedback = IF correct THEN "success" ELSE "error"]

\* The session after the Submit handler.
Submitted(sess, correct) ==
    [sess EXCEPT !.score = IF correct THEN @ + 1 ELSE @,
                 !.last_feedback = IF correct THEN "success" ELSE "error",
                 !.answered = TRUE]

\* The Next handler going back to the first question at the end of the list.
Advanced_Wrap(sess) ==
    [sess EXCEPT !.i = (@ + 1) % Len(sess.questions),
                 !.answered = FALSE,
                 !.last_feedback = "None"]

\* The session after the Next handler.
Advanced(sess) ==
    [sess EXCEPT !.i = @ + 1,
                 !.answered = FALSE,
                 !.last_feedback = "None",
                 !.done = IF sess.i + 1 >= Len(sess.questions) THEN TRUE ELSE @]

\* The page of the slot calls show_question_flow: the session exists, and the
\* Daily Practice page shows nothing until an answer is recorded.
FlowShown(kind) ==
    /\ kind \in DOMAIN session_state
    /\ kind = "practice" => TotalAnswers(global_stats) # 0

(* ------------------------------ actions ------------------------------- *)

NoSessions == [k \in {} |-> NewSession(<<>>)]

\* No direct call is made.
NoCall == [op |-> "none"]

Init ==
    /\ ALL_QUESTIONS \in Banks
    /\ global_stats = init_global_stats(ALL_QUESTIONS)
    /\ session_state = NoSessions
    /\ call = NoCall

\* A click on "Submit Answer" with the radio on choice.
SubmitAnswer(kind, choice) ==
    /\ FlowShown(kind)
    /\ LET sess == session_state[kind] IN
       IF SubmitOffered(sess)
       THEN LET q == CurrentQuestion(sess)
                correct == (choice = q.answer)
            IN  /\ choice \in Range(q.options)
                /\ session_state' =
                       [session_state EXCEPT ![kind] = Submitted(sess, correct)]
                /\ TotalAnswers(global_stats) < MaxAnswers
                /\ global_stats' = record_answer(global_stats, q.topic, correct)
                /\ UNCHANGED <<ALL_QUESTIONS, call>>
       ELSE UNCHANGED vars

\* A click on "Next Question".
NextQuestion(kind) ==
    /\ FlowShown(kind)
    /\ LET sess == session_state[kind] IN
       IF NextOffered(sess)
       THEN /\ session_state' = [session_state EXCEPT ![kind] = Advanced(sess)]
            /\ UNCHANGED <<ALL_QUESTIONS, global_stats, call>>
       ELSE UNCHANGED vars

StartDiagnostic ==
    /\ "diagnostic" \notin DOMAIN session_state
    /\ \E questions \in DiagnosticLists[ALL_QUESTIONS] :
          session_state' = start_exam_session(session_state, "diagnostic", questions)
    /\ UNCHANGED <<ALL_QUESTIONS, global_stats, call>>

RestartDiagnostic ==
    /\ "diagnostic" \in DOMAIN session_state
    /\ \E questions \in DiagnosticLists[ALL_QUESTIONS] :
          session_state' = start_exam_session(session_state, "diagnostic", questions)
    /\ UNCHANGED <<ALL_QUESTIONS, global_stats, call>>

StartPractice(n) ==
    /\ TotalAnswers(global_stats) # 0
    /\ "practice" \notin DOMAIN session_state
    /\ \E questions \in PracticeLists(ALL_QUESTIONS, global_stats, n) :
          session_state' = start_exam_session(session_state, "practice", questions)
    /\ UNCHANGED <<ALL_QUESTIONS, global_stats, call>>

RestartPractice(n) ==
    /\ TotalAnswers(global_stats) # 0
    /\ "practice" \in DOMAIN session_state
    /\ \E questions \in PracticeLists(ALL_QUESTIONS, global_stats, n) :
          session_state' = start_exam_session(session_state, "practice", questions)
    /\ UNCHANGED <<ALL_QUESTIONS, global_stats, call>>

\* The sidebar button "Reset all progress".
ResetAllProgress ==
    /\ session_state' = Pop(Pop(session_state, "diagnostic"), "practice")
    /\ global_stats' = init_global_stats(ALL_QUESTIONS)
    /\ UNCHANGED <<ALL_QUESTIONS, call>>

\* What the radio can be set to.
Choices == {"x", "y"}


Next ==
    \/ \E kind \in Kinds, choice \in Choices : SubmitAnswer(kind, choice)
    \/ \E kind \in Kinds : NextQuestion(kind)
    \/ StartDiagnostic
    \/ RestartDiagnostic
    \/ \E n \in PracticeNs : StartPractice(n)
    \/ \E n \in PracticeNs : RestartPractice(n)
    \/ ResetAllProgress

Spec == Init /\ [][Next]_vars

(* ------------------------------ properties ---------------------------- *)

\* The slot holds a session.
Live(kind) == kind \in DOMAIN session_state

\* A step of RestartDiagnostic (kind = "diagnostic") or of RestartPractice
\* (kind = "practice"), told by its effect: the slot held a session, and the
\* state after is the state before with a new session on one of the lists the
\* builder of the slot can return.
Restarted(kind) ==
    /\ Live(kind)
    /\ kind \in DOMAIN session_state'
    /\ UNCHANGED <<ALL_QUESTIONS, global_stats, call>>
    /\ session_state' =
          start_exam_session(session_state, kind, session_state'[kind].questions)
    /\ IF kind = "diagnostic"
       THEN session_state'[kind].questions \in DiagnosticLists[ALL_QUESTIONS]
       ELSE /\ TotalAnswers(global_stats) # 0
            /\ \E n \in PracticeNs :
                  session_state'[kind].questions
                      \in PracticeLists(ALL_QUESTIONS, global_stats, n)

\* A step in which the slot keeps its session: it holds one before and after,
\* and the step is not a restart of the slot.
SameSession(kind) ==
    /\ Live(kind)
    /\ kind \in DOMAIN session_state'
    /\ ~Restarted(kind)

\* C1 as stated: in every reachable state the score of a session is at most
\* its position (score <= i).
C1_ScoreAtMostPosition ==
    \A kind \in Kinds :
        Live(kind) => session_state[kind].score <= session_state[kind].i

\* C1 amended: the score of a session is at most its position while the
\* current question is unanswered, and at most its position plus one once the
\* current question is answered (Submit counts the answer before Next moves on).
C1_ScoreAtMostAnswered ==
    \A kind \in Kinds :
        Live(kind) =>
            LET sess == session_state[kind] IN
            /\ ~sess.answered => sess.score <= sess.i
            /\ sess.answered => sess.score <= sess.i + 1

\* A session whose current question was answered correctly, as were all
\* before it: the score is one ahead of the position.
C1_Witness ==
    \E kind \in Kinds :
        /\ Live(kind)
        /\ session_state[kind].answered
        /\ session_state[kind].score = session_state[kind].i + 1

\* C2: in every reachable state a session is done if and only if its position
\* equals the length of its question list, also right after it is started.
C2_DoneIffAtEnd ==
    \A kind \in Kinds :
        Live(kind) =>
            (session_state[kind].done <=>
                session_state[kind].i = Len(session_state[kind].questions))

\* C3: the position of a session stays within 0..len(questions); while the
\* slot keeps its session the position never decreases, and it changes only
\* by +1 and only in a step of the Next handler of that slot.
C3_PositionInRange ==
    \A kind \in Kinds :
        Live(kind) =>
            /\ 0 <= session_state[kind].i
            /\ session_state[kind].i <= Len(session_state[kind].questions)

C3_PositionStep ==
    \A kind \in Kinds :
        SameSession(kind) =>
            /\ session_state'[kind].i >= session_state[kind].i
            /\ session_state'[kind].questions = session_state[kind].questions
            /\ session_state'[kind].i # session_state[kind].i =>
                  /\ session_state'[kind].i = session_state[kind].i + 1
                  /\ NextQuestion(kind)

C3_PositionForward == []C3_PositionInRange /\ [][C3_PositionStep]_vars

\* A session that has moved on twice and is not yet at its end.
C3_Witness ==
    \E kind \in Kinds :
        /\ Live(kind)
        /\ session_state[kind].i = 2
        /\ session_state[kind].i < Len(session_state[kind].questions)

\* C4: a Submit click changes the state only when the session is neither
\* answered nor done; it then records exactly one answer (the sum of the
\* totals grows by one) and leaves the session answered at the same position;
\* a Submit click on an answered or done session changes nothing.
C4_SubmitStep ==
    \A kind \in Kinds, choice \in Choices :
        SubmitAnswer(kind, choice) =>
            LET sess == session_state[kind] IN
            /\ (sess.answered \/ sess.done) => UNCHANGED vars
            /\ ~(UNCHANGED vars) =>
                  /\ ~sess.answered /\ ~sess.done
                  /\ TotalAnswers(global_stats') = TotalAnswers(global_stats) + 1
                  /\ session_state'[kind].answered
                  /\ session_state'[kind].i = sess.i
                  /\ session_state'[kind].questions = sess.questions

C4_SubmitOnce == [][C4_SubmitStep]_vars

\* A session that is answered while answers can still be recorded: a second
\* Submit on it is possible.
C4_Witness ==
    \E kind \in Kinds :
        /\ Live(kind)
        /\ session_state[kind].answered
        /\ TotalAnswers(global_stats) > 0
        /\ TotalAnswers(global_stats) < MaxAnswers

\* C5: a Next click changes the state only when the session is answered; it
\* then moves the position by exactly one, leaves the session unanswered with
\* no feedback, and touches neither the score nor the counters; a Next click
\* on an unanswered session changes nothing.  While a slot keeps its session,
\* the session becomes answered only by a Submit that records an answer at the
\* same position, and stays answered only if nothing of it changes: Submit and
\* Next alternate, one recorded answer per move of the position.
C5_NextStep ==
    \A kind \in Kinds :
        /\ NextQuestion(kind) =>
              LET sess == session_state[kind] IN
              /\ ~sess.answered => UNCHANGED vars
              /\ ~(UNCHANGED vars) =>
                    /\ sess.answered
                    /\ session_state'[kind].i = sess.i + 1
                    /\ ~session_state'[kind].answered
                    /\ session_state'[kind].last_feedback = "None"
                    /\ session_state'[kind].score = sess.score
                    /\ session_state'[kind].questions = sess.questions
                    /\ UNCHANGED global_stats
        /\ (Live(kind) /\ kind \in DOMAIN session_state') =>
              LET sess == session_state[kind]
                  after == session_state'[kind]
              IN  \/ after = sess
                  \/ /\ ~sess.answered /\ after.answered
                     /\ after.i = sess.i
                     /\ TotalAnswers(global_stats') = TotalAnswers(global_stats) + 1
                  \/ /\ sess.answered /\ ~after.answered
                     /\ after.i = sess.i + 1
                     /\ UNCHANGED global_stats
                  \/ Restarted(kind)

C5_SubmitNextAlternate == [][C5_NextStep]_vars

\* A session that was answered and moved on, and is answered again at the
\* next position.
C5_Witness ==
    \E kind \in Kinds :
        /\ Live(kind)
        /\ session_state[kind].i >= 1
        /\ session_state[kind].answered

\* C6: once a session is done, a Submit or Next click on it changes nothing
\* (position, score, answered, feedback, counters), and the session of the
\* slot stays as it is, done, until a restart replaces it or a reset removes it.
C6_DoneStep ==
    \A kind \in Kinds :
        (Live(kind) /\ session_state[kind].done) =>
            /\ \A choice \in Choices : SubmitAnswer(kind, choice) => UNCHANGED vars
            /\ NextQuestion(kind) => UNCHANGED vars
            /\ kind \in DOMAIN session_state' =>
                  \/ session_state'[kind] = session_state[kind]
                  \/ Restarted(kind)
            /\ kind \notin DOMAIN session_state' => ResetAllProgress

C6_CompletionTerminal == [][C6_DoneStep]_vars

\* A session that was worked through to its end.
C6_Witness ==
    \E kind \in Kinds :
        /\ Live(kind)
        /\ session_state[kind].done
        /\ Len(session_state[kind].questions) > 0
        /\ session_state[kind].i = Len(session_state[kind].questions)

\* C7: no session with zero questions is ever created: no reachable session
\* has position 0, is not done and holds an empty question list.
C7_NoEmptySession ==
    \A kind \in Kinds :
        Live(kind) =>
            ~ /\ session_state[kind].i = 0
              /\ ~session_state[kind].done
              /\ Len(session_state[kind].questions) = 0

\* C8: in every reachable state every topic has 0 <= correct <= total.
C8_CorrectAtMostTotal ==
    \A t \in Range(TOPICS(ALL_QUESTIONS)) :
        /\ 0 <= global_stats.topic_correct[t]
        /\ global_stats.topic_correct[t] <= global_stats.topic_total[t]

\* Both slots hold a session, and some topic has right and wrong answers
\* recorded.
C8_Witness ==
    /\ Live("diagnostic") /\ Live("practice")
    /\ \E t \in Range(TOPICS(ALL_QUESTIONS)) :
          /\ 0 < global_stats.topic_correct[t]
          /\ global_stats.topic_correct[t] < global_stats.topic_total[t]

\* C9: the counters change only in a Submit step or a reset; no step other
\* than a reset decreases a topic's correct or total; a start, a restart and a
\* Next click leave the counters alone; a reset sets every pair to (0, 0).
C9_CountersStep ==
    /\ ~(UNCHANGED global_stats) =>
          \/ ResetAllProgress
          \/ \E kind \in Kinds, choice \in Choices : SubmitAnswer(kind, choice)
    /\ \/ \A t \in Range(TOPICS(ALL_QUESTIONS)) :
             /\ global_stats'.topic_correct[t] >= global_stats.topic_correct[t]
             /\ global_stats'.topic_total[t] >= global_stats.topic_total[t]
       \/ ResetAllProgress
    /\ ResetAllProgress =>
          \A t \in Range(TOPICS(ALL_QUESTIONS)) :
             /\ global_stats'.topic_correct[t] = 0
             /\ global_stats'.topic_total[t] = 0
    /\ ~(UNCHANGED global_stats) =>
          ~ \/ StartDiagnostic \/ RestartDiagnostic
            \/ \E n \in PracticeNs : StartPractice(n) \/ RestartPractice(n)
            \/ \E kind \in Kinds : NextQuestion(kind)

C9_CountersOnlyRecordAndReset == [][C9_CountersStep]_vars

\* Both slots hold a session that was just started, yet answers are recorded:
\* the restarts kept the counters.
C9_Witness ==
    /\ TotalAnswers(global_stats) > 0
    /\ \A kind \in Kinds :
          /\ Live(kind)
          /\ session_state[kind].i = 0
          /\ ~session_state[kind].answered

(* ------------------- direct calls of weakest_topics -------------------- *)

\* Largest per-topic total of the counters a direct call is tried on.
MaxCount == 3

\* Three topics, one question each.
BankThreeTopics ==
    << Question(1, "Art", "easy"), Question(2, "History", "easy"),
       Question(3, "Science", "easy") >>

WeakBanks == {BankTwoTopics, BankThreeTopics}

\* Every value of the counters with correct <= total <= m for each topic
\* (each is reached by recording answers).
StatsUpTo(bank, m) ==
    { [topic_correct |-> c, topic_total |-> t] :
        <<c, t>> \in { ct \in [Range(TOPICS(bank)) -> 0..m] \X [Range(TOPICS(bank)) -> 0..m] :
                         \A x \in Range(TOPICS(bank)) : ct[1][x] <= ct[2][x] } }

\* The thresholds and the k a direct call is tried with.
Thresholds == { <<0, 1>>, <<1, 2>>, WEAK_THRESHOLD, <<1, 1>>, <<3, 2>> }

Ks == 0..WEAK_MAX_TOPICS

InitWeak ==
    /\ ALL_QUESTIONS \in WeakBanks
    /\ global_stats \in StatsUpTo(ALL_QUESTIONS, MaxCount)
    /\ session_state = NoSessions
    /\ call = NoCall

\* weakest_topics(stats, threshold, k) on the current counters.
CallWeakestTopics(threshold, k) ==
    /\ call = NoCall
    /\ call' = [op |-> "weakest_topics", threshold |-> threshold, k |-> k,
                acc |-> compute_accuracies(ALL_QUESTIONS, global_stats),
                value |-> weakest_topics(ALL_QUESTIONS, global_stats, threshold, k)]
    /\ UNCHANGED <<ALL_QUESTIONS, global_stats, session_state>>

NextWeak == \E threshold \in Thresholds, k \in Ks : CallWeakestTopics(threshold, k)

SpecWeak == InitWeak /\ [][NextWeak]_vars

\* weakest_topics has returned from a call at the defaults (0.7, 3).
WeakestAtDefaults ==
    /\ call.op = "weakest_topics"
    /\ call.threshold = WEAK_THRESHOLD
    /\ call.k = WEAK_MAX_TOPICS

\* C11: at the defaults, weakest_topics returns the empty list whenever no
\* answer is recorded (the totals sum to zero).
C11_EmptyWithoutData ==
    (WeakestAtDefaults /\ TotalAnswers(global_stats) = 0) => call.value = <<>>

\* C12: a topic with total 0 has accuracy exactly 1/2, and at the defaults no
\* topic without a recorded answer is among the weak topics returned.
C12_UnseenNotWeak ==
    WeakestAtDefaults =>
        \A t \in Range(TOPICS(ALL_QUESTIONS)) :
            global_stats.topic_total[t] = 0 =>
                /\ call.acc[t] = <<1, 2>>
                /\ t \notin Range(call.value)

\* The place of a topic in TOPICS (alphabetical).
TopicIndex(bank, t) == CHOOSE j \in 1..Len(TOPICS(bank)) : TOPICS(bank)[j] = t

\* C13: for every counters, threshold and k, weakest_topics returns at most k
\* topics, each once and each of accuracy below the threshold, in ascending
\* order of accuracy with ties in alphabetical order; every qualifying topic
\* left out comes after all returned ones in that order, and none is left out
\* while fewer than k are returned.
C13_FirstKWeakest ==
    call.op = "weakest_topics" =>
        LET r    == call.value
            acc  == compute_accuracies(ALL_QUESTIONS, global_stats)
            Qual == { t \in Range(TOPICS(ALL_QUESTIONS)) : RatioLess(acc[t], call.threshold) }
            Before(a, b) ==
                \/ RatioLess(acc[a], acc[b])
                \/ /\ ~RatioLess(acc[b], acc[a])
                   /\ TopicIndex(ALL_QUESTIONS, a) < TopicIndex(ALL_QUESTIONS, b)
        IN  /\ Len(r) <= call.k
            /\ Range(r) \subseteq Qual
            /\ \A i, j \in 1..Len(r) : i < j => Before(r[i], r[j])
            /\ Len(r) = Min(call.k, Cardinality(Qual))
            /\ \A t \in Qual \ Range(r) : \A i \in 1..Len(r) : Before(r[i], t)

\* Three topics qualify, two of them tie, and the call returns two of the
\* three with the tied ones in it.
C13_Witness ==
    /\ call.op = "weakest_topics"
    /\ call.k = 2
    /\ Len(call.value) = 2
    /\ Cardinality({ t \in Range(TOPICS(ALL_QUESTIONS)) :
                        RatioLess(call.acc[t], call.threshold) }) = 3
    /\ call.acc[call.value[1]][1] * call.acc[call.value[2]][2]
          = call.acc[call.value[2]][1] * call.acc[call.value[1]][2]

(* -------------------- direct calls of record_answer -------------------- *)

InitRecord ==
    /\ ALL_QUESTIONS \in WeakBanks
    /\ global_stats = init_global_stats(ALL_QUESTIONS)
    /\ session_state = NoSessions
    /\ call = NoCall

\* record_answer(topic, is_correct) is called on the tracker as it is (the
\* total of the topic is capped); the call keeps the tracker it found.
CallRecordAnswer(topic, is_correct) ==
    /\ topic \in Range(TOPICS(ALL_QUESTIONS))
    /\ global_stats.topic_total[topic] < MaxCount
    /\ global_stats' = record_answer(global_stats, topic, is_correct)
    /\ call' = [op |-> "record_answer", topic |-> topic, is_correct |-> is_correct,
                before |-> global_stats]
    /\ UNCHANGED <<ALL_QUESTIONS, session_state>>

NextRecord ==
    \E topic \in Range(TopicUniverse), is_correct \in BOOLEAN :
        CallRecordAnswer(topic, is_correct)

SpecRecord == InitRecord /\ [][NextRecord]_vars

C10_RecordCall ==
    call.op = "record_answer" =>
        \A t \in Range(TOPICS(ALL_QUESTIONS)) :
            /\ global_stats.topic_total[t] =
                  call.before.topic_total[t] + (IF t = call.topic THEN 1 ELSE 0)
            /\ global_stats.topic_correct[t] =
                  call.before.topic_correct[t]
                      + (IF t = call.topic /\ call.is_correct THEN 1 ELSE 0)

C10_RecordTwice ==
    \A t \in Range(TOPICS(ALL_QUESTIONS)) :
        LET fresh == init_global_stats(ALL_QUESTIONS)
            twice == record_answer(record_answer(fresh, t, TRUE), t, FALSE)
        IN  /\ twice.topic_total[t] = 2
            /\ twice.topic_correct[t] = 1
            /\ \A u \in Range(TOPICS(ALL_QUESTIONS)) \ {t} :
                  /\ twice.topic_total[u] = 0
                  /\ twice.topic_correct[u] = 0

\* C10: record_answer(topic, is_correct) adds 1 to the total of the topic,
\* adds 1 to its correct iff is_correct, and leaves the pair of every other
\* topic as it was; from fresh counters, record(t, true) then record(t, false)
\* gives total 2, correct 1 for t and total 0, correct 0 for every other topic.
C10_RecordOnlyItsTopic == C10_RecordTwice /\ C10_RecordCall

\* After record(t, true) and record(t, false) on a fresh tracker of three
\* topics: t has total 2 and correct 1, the last call was the wrong answer,
\* the other topics have nothing.
C10_Witness ==
    /\ call.op = "record_answer"
    /\ ~call.is_correct
    /\ Len(TOPICS(ALL_QUESTIONS)) = 3
    /\ global_stats.topic_total[call.topic] = 2
    /\ global_stats.topic_correct[call.topic] = 1
    /\ call.before.topic_correct[call.topic] = 1
    /\ \A u \in Range(TOPICS(ALL_QUESTIONS)) \ {call.topic} :
          global_stats.topic_total[u] = 0

(* ---------------- direct calls of build_diagnostic_exam ---------------- *)

\* Art has every difficulty (two easy questions to choose from); History has
\* no hard question, so the builder has to top it up.
BankTopUp ==
    << Question(1, "Art", "easy"), Question(2, "Art", "easy"),
       Question(3, "Art", "medium"), Question(4, "Art", "hard"),
       Question(5, "History", "easy"), Question(6, "History", "easy"),
       Question(7, "History", "medium") >>

\* History has a single question.
BankShortTopic ==
    << Question(1, "Art", "easy"), Question(2, "Art", "medium"),
       Question(3, "Art", "hard"), Question(4, "History", "easy") >>

ExamBanks == {BankEmpty, BankOneTopic, BankTwoTopics, BankTopUp, BankShortTopic}

\* topic_all: the buckets of the topic, in difficulty order.
TopicAll(bank, topic) ==
    BY_TOPIC_DIFFICULTY(bank, topic, DIFFICULTIES[1])
        \o BY_TOPIC_DIFFICULTY(bank, topic, DIFFICULTIES[2])
        \o BY_TOPIC_DIFFICULTY(bank, topic, DIFFICULTIES[3])

\* The condition of the top-up loop: while len(picked) < 3 and topic_all.
TopUpLoops(picked, topic_all) == Len(picked) < 3 /\ topic_all # <<>>

\* The body of the top-up loop appending the candidate whether picked or not.
TopUpBody_NoCheck(picked, candidate) == Append(picked, candidate)

\* The body of the top-up loop: the candidate is appended if not picked yet.
TopUpBody(picked, candidate) ==
    IF candidate \notin Range(picked) THEN Append(picked, candidate) ELSE picked

InitExam ==
    /\ ALL_QUESTIONS \in ExamBanks
    /\ global_stats = init_global_stats(ALL_QUESTIONS)
    /\ session_state = NoSessions
    /\ call = NoCall

\* The call as it enters the loop over topic number t (or leaves the loop
\* over the topics when there is none left).
ExamAtTopic(exam, t) ==
    [op |-> "build_diagnostic_exam",
     pc |-> IF t > Len(TOPICS(ALL_QUESTIONS)) THEN "shuffle" ELSE "pick",
     t |-> t, d |-> 1, picked |-> <<>>, exam |-> exam]

\* build_diagnostic_exam() is entered.
CallBuildDiagnosticExam ==
    /\ call = NoCall
    /\ call' = ExamAtTopic(<<>>, 1)
    /\ UNCHANGED <<ALL_QUESTIONS, global_stats, session_state>>

\* One round of "for d in DIFFICULTIES": a random.choice from the bucket when
\* it is not empty.
ExamPick ==
    /\ call.op = "build_diagnostic_exam" /\ call.pc = "pick"
    /\ LET candidates ==
               BY_TOPIC_DIFFICULTY(ALL_QUESTIONS, TOPICS(ALL_QUESTIONS)[call.t],
                                   DIFFICULTIES[call.d])
           after(picked) ==
               [call EXCEPT !.picked = picked,
                            !.d = IF call.d < Len(DIFFICULTIES) THEN @ + 1 ELSE @,
                            !.pc = IF call.d < Len(DIFFICULTIES) THEN "pick" ELSE "topup"]
       IN  IF candidates # <<>>
           THEN \E c \in Range(candidates) : call' = after(Append(call.picked, c))
           ELSE call' = after(call.picked)
    /\ UNCHANGED <<ALL_QUESTIONS, global_stats, session_state>>

\* One test of the top-up loop: a round of its body with a random candidate,
\* or, the condition being false, exam.extend(picked[:3]) and the next topic.
ExamTopUp ==
    /\ call.op = "build_diagnostic_exam" /\ call.pc = "topup"
    /\ LET topic_all == TopicAll(ALL_QUESTIONS, TOPICS(ALL_QUESTIONS)[call.t])
       IN  IF TopUpLoops(call.picked, topic_all)
           THEN \E candidate \in Range(topic_all) :
                   call' = [call EXCEPT !.picked = TopUpBody(call.picked, candidate)]
           ELSE call' = ExamAtTopic(
                           call.exam \o SubSeq(call.picked, 1, Min(3, Len(call.picked))),
                           call.t + 1)
    /\ UNCHANGED <<ALL_QUESTIONS, global_stats, session_state>>

\* random.shuffle(exam); return exam.
ExamShuffle ==
    /\ call.op = "build_diagnostic_exam" /\ call.pc = "shuffle"
    /\ \E exam \in Shuffle(call.exam) : call' = [call EXCEPT !.exam = exam, !.pc = "return"]
    /\ UNCHANGED <<ALL_QUESTIONS, global_stats, session_state>>

NextExam ==
    \/ CallBuildDiagnosticExam
    \/ ExamPick
    \/ ExamTopUp
    \/ ExamShuffle

SpecExam == InitExam /\ [][NextExam]_vars

\* The questions of a topic in the bank.
TopicQuestions(bank, topic) == SelectSeq(bank, LAMBDA q : q.topic = topic)

\* The sum over the topics of min(3, number of questions of the topic).
ExamLength(bank) ==
    SumOver([t \in Range(TOPICS(bank)) |-> Min(3, Len(TopicQuestions(bank, t)))],
            Range(TOPICS(bank)))

\* C14: build_diagnostic_exam terminates on every bank (a call that has not
\* returned can always make progress; the top-up loop is left once every
\* question of the topic is picked) and the exam it returns holds the sum over
\* the topics of min(3, questions of the topic) questions.
C14_BuildTerminates ==
    call.op = "build_diagnostic_exam" =>
        /\ call.pc = "return" => Len(call.exam) = ExamLength(ALL_QUESTIONS)
        /\ call.pc # "return" => ENABLED <<NextExam>>_vars
        /\ call.pc = "topup" =>
              LET topic_all == TopicAll(ALL_QUESTIONS, TOPICS(ALL_QUESTIONS)[call.t])
              IN  Range(topic_all) \subseteq Range(call.picked)
                      => ~TopUpLoops(call.picked, topic_all)

\* C15: in every exam build_diagnostic_exam returns, a topic with an easy, a
\* medium and a hard question has exactly 3 questions, exactly one of each
\* difficulty, and no question of the bank is in the exam twice.
C15_OnePerDifficulty ==
    (call.op = "build_diagnostic_exam" /\ call.pc = "return") =>
        LET exam == call.exam
            Of(t, d) == { j \in 1..Len(exam) : exam[j].topic = t /\ exam[j].difficulty = d }
        IN  /\ \A t \in Range(TOPICS(ALL_QUESTIONS)) :
                  (\A d \in Range(DIFFICULTIES) :
                        BY_TOPIC_DIFFICULTY(ALL_QUESTIONS, t, d) # <<>>)
                  => /\ Cardinality({ j \in 1..Len(exam) : exam[j].topic = t }) = 3
                     /\ \A d \in Range(DIFFICULTIES) : Cardinality(Of(t, d)) = 1
            /\ \A i, j \in 1..Len(exam) : i # j => exam[i] # exam[j]
            /\ Range(exam) \subseteq Range(ALL_QUESTIONS)

\* An exam returned on the bank that needs a choice (two easy Art questions)
\* and a top-up (History has no hard question): the second easy Art question
\* was chosen and all three History questions are in.
C15_Witness ==
    /\ call.op = "build_diagnostic_exam" /\ call.pc = "return"
    /\ ALL_QUESTIONS = BankTopUp
    /\ BankTopUp[2] \in Range(call.exam)
    /\ Cardinality({ j \in 1..Len(call.exam) : call.exam[j].topic = "History" }) = 3

(* ---------------- direct calls of personalized_questions --------------- *)

\* Bound on the answers recorded per topic before the call.
MaxSeen == 1

\* Bound on the requested n (one more than the largest bank).
MaxN == 7

\* Five Art questions and a single History question.
BankMostlyArt ==
    << Question(1, "Art", "easy"), Question(2, "Art", "easy"),
       Question(3, "Art", "medium"), Question(4, "Art", "medium"),
       Question(5, "Art", "hard"), Question(6, "History", "easy") >>

PracticeBanks == {BankEmpty, BankOneTopic, BankTwoTopics, BankThreeTopics, BankMostlyArt}

InitPractice ==
    /\ ALL_QUESTIONS \in PracticeBanks
    /\ global_stats \in StatsUpTo(ALL_QUESTIONS, MaxSeen)
    /\ session_state = NoSessions
    /\ call = NoCall

\* personalized_questions(n) is called and returns one of its lists.
CallPersonalizedQuestions(n) ==
    /\ call = NoCall
    /\ \E value \in personalized_questions(ALL_QUESTIONS, global_stats, n) :
          call' = [op |-> "personalized_questions", n |-> n,
                   weak |-> PracticeWeak(ALL_QUESTIONS, global_stats),
                   value |-> value]
    /\ UNCHANGED <<ALL_QUESTIONS, global_stats, session_state>>

NextPractice == \E n \in 1..MaxN : CallPersonalizedQuestions(n)

SpecPractice == InitPractice /\ [][NextPractice]_vars

\* The number of questions of the list whose topic is weak.
WeakCount(list, weak) ==
    Cardinality({ j \in 1..Len(list) : list[j].topic \in Range(weak) })

\* A call with prior data and a weak topic, n within the bank, and a weak
\* pool of at least max(1, round(0.7 n)) questions.
PersonalizedCall ==
    /\ call.op = "personalized_questions"
    /\ TotalAnswers(global_stats) > 0
    /\ call.weak # <<>>
    /\ call.n \in 1..Len(ALL_QUESTIONS)
    /\ WeakCount(ALL_QUESTIONS, call.weak) >= Max(1, Round07(call.n))

\* C16 as stated: with prior data and a weak topic, the set holds exactly
\* max(1, round(0.7 n)) weak-topic questions whenever the weak pool has that
\* many, for every n in 1..bank size and every split of the bank.
C16_ExactWeakShare ==
    PersonalizedCall => WeakCount(call.value, call.weak) = Max(1, Round07(call.n))

\* C16 amended: under the same conditions the set holds exactly
\* max(1, round(0.7 n)) weak-topic questions when the other pool has at least
\* n minus that many questions; a smaller (or empty) other pool is used up and
\* the rest of the set is weak-topic questions, n - |other pool| in all.
C16_WeakShare ==
    PersonalizedCall =>
        LET target == Max(1, Round07(call.n))
            others == Len(ALL_QUESTIONS) - WeakCount(ALL_QUESTIONS, call.weak)
        IN  /\ others >= call.n - target => WeakCount(call.value, call.weak) = target
            /\ others < call.n - target
                  => WeakCount(call.value, call.weak) = call.n - others

\* A personalized set of 6 from five weak Art questions and one History
\* question: the target is 4, the other pool has 1, the set has 5 weak ones.
C16_Witness ==
    /\ PersonalizedCall
    /\ ALL_QUESTIONS = BankMostlyArt
    /\ call.weak = <<"Art">>
    /\ call.n = 6
    /\ WeakCount(call.value, call.weak) = 5

\* C17: for every stats state, every bank and every n >= 1 the returned set
\* has no question twice and exactly min(n, bank size) questions.
C17_DistinctAndFull ==
    call.op = "personalized_questions" =>
        /\ \A i, j \in 1..Len(call.value) : i # j => call.value[i] # call.value[j]
        /\ Len(call.value) = Min(call.n, Len(ALL_QUESTIONS))
        /\ Range(call.value) \subseteq Range(ALL_QUESTIONS)

\* A set that went through the weak draw, the fill from the whole bank (every
\* topic is weak, the other pool is empty) and came out with all 6 questions
\* for a request of 7.
C17_Witness ==
    /\ call.op = "personalized_questions"
    /\ ALL_QUESTIONS = BankTwoTopics
    /\ call.weak = <<"Art", "History">>
    /\ call.n = MaxN
    /\ Len(call.value) = 6

(* ----------------------- the two session slots ------------------------ *)

\* The other slot.
Other(kind) == IF kind = "diagnostic" THEN "practice" ELSE "diagnostic"

\* A step of StartDiagnostic (kind = "diagnostic") or of StartPractice
\* (kind = "practice"), told by its effect: the slot was empty, and the state
\* after is the state before with a new session on one of the lists the
\* builder of the slot can return.
Started(kind) ==
    /\ ~Live(kind)
    /\ kind \in DOMAIN session_state'
    /\ UNCHANGED <<ALL_QUESTIONS, global_stats, call>>
    /\ session_state' =
          start_exam_session(session_state, kind, session_state'[kind].questions)
    /\ IF kind = "diagnostic"
       THEN session_state'[kind].questions \in DiagnosticLists[ALL_QUESTIONS]
       ELSE /\ TotalAnswers(global_stats) # 0
            /\ \E n \in PracticeNs :
                  session_state'[kind].questions
                      \in PracticeLists(ALL_QUESTIONS, global_stats, n)

\* The step changes the slot: a session appears, goes, or has a field changed.
SlotChanged(kind) ==
    \/ Live(kind) # (kind \in DOMAIN session_state')
    \/ /\ Live(kind)
       /\ kind \in DOMAIN session_state'
       /\ session_state'[kind] # session_state[kind]

\* A Start, Restart, Submit or Next of the slot.
ActsOn(kind) ==
    \/ Started(kind)
    \/ Restarted(kind)
    \/ \E choice \in Choices : SubmitAnswer(kind, choice)
    \/ NextQuestion(kind)

C18_OneSlotPerKind == DOMAIN session_state \subseteq Kinds

C18_SlotStep ==
    \A kind \in Kinds :
        /\ SlotChanged(Other(kind)) => ~ActsOn(kind)
        /\ (/\ kind \in DOMAIN session_state'
            /\ \/ session_state'[kind].i # 0
               \/ session_state'[kind].score # 0
               \/ session_state'[kind].answered
               \/ session_state'[kind].last_feedback # "None"
               \/ session_state'[kind].done)
              => ~(Started(kind) \/ Restarted(kind))

\* C18: the two slots are independent: the session state holds at most one
\* session per kind; a Start or Restart of a kind puts a fresh session
\* (position 0, score 0, not answered, no feedback, not done) in the slot of
\* that kind (no such step ends with anything else in the slot);
\* and a Start, Restart, Submit or Next of one kind leaves the other kind's
\* session, and whether there is one, as it was.
C18_SlotsIndependent == []C18_OneSlotPerKind /\ [][C18_SlotStep]_vars

\* A practice session of five questions (the slider on 5 or more) just started
\* next to a diagnostic session that is past its first question with a point
\* scored.
C18_Witness ==
    /\ Live("diagnostic") /\ Live("practice")
    /\ session_state["diagnostic"].i = 1
    /\ session_state["diagnostic"].score = 1
    /\ session_state["practice"] = NewSession(session_state["practice"].questions)
    /\ Len(session_state["practice"].questions) = 5

\* C19: in every reachable state every session has score <= position + 1 if
\* answered and score <= position if not; it holds a feedback exactly when it
\* is answered; and a complete session is not answered.
C19_SessionConsistent ==
    \A kind \in Kinds :
        Live(kind) =>
            LET sess == session_state[kind]
            IN  /\ sess.score <= sess.i + (IF sess.answered THEN 1 ELSE 0)
                /\ (sess.last_feedback # "None") <=> sess.answered
                /\ sess.done => ~sess.answered

\* A complete session in which every question was answered correctly.
C19_Witness ==
    \E kind \in Kinds :
        /\ Live(kind)
        /\ session_state[kind].done
        /\ session_state[kind].i = Len(session_state[kind].questions)
        /\ session_state[kind].i > 0
        /\ session_state[kind].score = session_state[kind].i
        /\ session_state[kind].last_feedback = "None"

\* sum(topic_correct.values())
CorrectAnswers(stats) == SumOver(stats.topic_correct, DOMAIN stats.topic_correct)

\* The sum of the scores of the live sessions.
LiveScores ==
    SumOver([k \in DOMAIN session_state |-> session_state[k].score],
            DOMAIN session_state)

\* A Submit click that the flow of the slot accepts.
AcceptedSubmit(kind) ==
    /\ Live(kind)
    /\ SubmitOffered(session_state[kind])
    /\ \E choice \in Choices : SubmitAnswer(kind, choice)

C20_CountersCoverSessions ==
    /\ CorrectAnswers(global_stats) >= LiveScores
    /\ Live("practice") => TotalAnswers(global_stats) > 0

C20_TotalStep ==
    /\ (\E kind \in Kinds : AcceptedSubmit(kind))
          => TotalAnswers(global_stats') = TotalAnswers(global_stats) + 1
    /\ ResetAllProgress => TotalAnswers(global_stats') = 0
    /\ ~(UNCHANGED global_stats)
          => \/ \E kind \in Kinds : AcceptedSubmit(kind)
             \/ ResetAllProgress

\* C20: over every interleaving of Start, Restart, Submit, Next on both slots
\* and Reset, the sum of the totals counts the accepted Submits since the
\* last reset (it is 0 at the start and after a reset, goes up by one with
\* every accepted Submit, and no other step, a restart included, changes the
\* counters);
\* the sum of the corrects is at least the sum of the scores of the live
\* sessions; and while a practice session is live the sum of the totals is
\* above 0.
C20_CountersAndSessions == []C20_CountersCoverSessions /\ [][C20_TotalStep]_vars

\* A restarted diagnostic session (fresh, its earlier correct answer still
\* counted) next to a practice session with one point.
C20_Witness ==
    /\ Live("diagnostic") /\ Live("practice")
    /\ session_state["diagnostic"] = NewSession(session_state["diagnostic"].questions)
    /\ session_state["practice"].score = 1
    /\ CorrectAnswers(global_stats) = 2
    /\ TotalAnswers(global_stats) = 2

====
